---- MODULE Spec2Model ----
(***************************************************************************)
(* Universal Video Downloader: the streaming download proxy                *)
(* (GET /api/stream-download), the temporary cookie files of the analyze,  *)
(* download and stream-download requests, and the browser-side download    *)
(* engines (pause/resume client, parallel "speed boost" client).           *)
(***************************************************************************)
EXTENDS Integers, Sequences, FiniteSets, TLC

(***************************************************************************)
(* Bounds of the model.                                                    *)
(***************************************************************************)
NumReqs == 2          \* request slots of the server
MaxClock == 2         \* values Date.now() takes while the model runs
StdoutLen == 2        \* bytes of the resource: yt-dlp writes them and exits 0

Reqs == 1..NumReqs

(***************************************************************************)
(* Server state.                                                           *)
(*   clock  Date.now()                                                     *)
(*   files  the temp_cookies_<n>.txt files on disk, by their <n>           *)
(*   req    one record per request slot (the handler's locals, its         *)
(*          response object, its subprocess and its client connection)     *)
(*   USE_COOKIES  whether the server's own cookie file existed at startup  *)
(***************************************************************************)
VARIABLES clock, files, req, USE_COOKIES

svars == <<clock, files, req, USE_COOKIES>>

\* The React state of the pause/resume client and its startDownload
\* invocations.
VARIABLES isPaused, downloadedChunks, downloadedBytes, retryCount,
          downloading, abortController, error, inv, nextInv, saved

cvars == <<isPaused, downloadedChunks, downloadedBytes, retryCount,
           downloading, abortController, error, inv, nextInv, saved>>

\* The locals of downloadWithSpeedBoost and downloadSequentially.
VARIABLES total, parallelConnections, bphase, bpc, chunkData, chunks,
          totalDownloaded, finished, boostBlob, sphase, seqChunks, seqBlob

bvars == <<total, parallelConnections, bphase, bpc, chunkData, chunks,
           totalDownloaded, finished, boostBlob, sphase, seqChunks, seqBlob>>

\* The disk, the HEAD and GET requests for files and the deletion timers.
VARIABLES disk, mseq, now, gets, timers

dvars == <<disk, mseq, now, gets, timers>>

\* The limiter's store, the analysis cache and the requests that pass them.
VARIABLES atime, sweepDue, analysisCache, hits, resetTime, admitted, areq

avars == <<atime, sweepDue, analysisCache, hits, resetTime, admitted, areq>>

\* The state of the file-relay client's handleDownload.
VARIABLES hpc, hid, hdownloading, downloadAbortController, signalAborted,
          useSimpleDownload, received, downloadHistory, alerts, triggered,
          opened, cancelled

hvars == <<hpc, hid, hdownloading, downloadAbortController, signalAborted,
           useSimpleDownload, received, downloadHistory, alerts, triggered,
           opened, cancelled>>

Digits == {"0", "1", "2", "3", "4", "5", "6", "7", "8", "9"}

DigitVal(c) ==
  CASE c = "0" -> 0 [] c = "1" -> 1 [] c = "2" -> 2 [] c = "3" -> 3
    [] c = "4" -> 4 [] c = "5" -> 5 [] c = "6" -> 6 [] c = "7" -> 7
    [] c = "8" -> 8 [] c = "9" -> 9

\* JavaScript parseInt(string) in radix 10 on a sequence of characters:
\* leading white space is skipped, one sign is accepted, then the longest
\* run of digits is read; no digit at all gives NaN.
RECURSIVE SkipSpace(_)
SkipSpace(s) == IF s # <<>> /\ Head(s) = " " THEN SkipSpace(Tail(s)) ELSE s

RECURSIVE ReadDigits(_, _)
ReadDigits(s, acc) ==
  IF s # <<>> /\ Head(s) \in Digits
    THEN ReadDigits(Tail(s), acc * 10 + DigitVal(Head(s)))
    ELSE acc

parseInt(str) ==
  LET t == SkipSpace(str)
      neg == t # <<>> /\ Head(t) = "-"
      u == IF t # <<>> /\ Head(t) \in {"-", "+"} THEN Tail(t) ELSE t
  IN  IF u = <<>> \/ Head(u) \notin Digits
        THEN [nan |-> TRUE, val |-> 0]
        ELSE [nan |-> FALSE,
              val |-> IF neg THEN 0 - ReadDigits(u, 0) ELSE ReadDigits(u, 0)]

\* parseInt(resumeFrom) || 0 : NaN and 0 are falsy.
resumeFromByteOf(resumeFrom) ==
  LET p == parseInt(resumeFrom) IN IF p.nan THEN 0 ELSE p.val

\* String.prototype.includes, case-sensitive, on a text given as the
\* sequence of its pieces (every text searched for is one piece).
includes(message, word) == \E k \in 1..Len(message) : message[k] = word

isRangeRequest_NonNegative(resumeFromByte) == resumeFromByte >= 0

isRangeRequest(resumeFromByte) == resumeFromByte > 0

\* A cookie blob is a sequence of lines; a line is described by what
\* validateCookies looks at: whether it starts with '#', whether it is blank
\* after trim(), and how many tab-separated fields split('\t') gives.
validateCookies(cookiesString) ==
  /\ cookiesString # <<>>
  /\ \E i \in 1..Len(cookiesString) :
        /\ ~cookiesString[i].hash
        /\ ~cookiesString[i].blank
        /\ cookiesString[i].fields >= 6

(***************************************************************************)
(* Inputs of the requests.                                                 *)
(***************************************************************************)
CookieLine(h, b, f) == [hash |-> h, blank |-> b, fields |-> f]

NoCookies == <<>>
ValidCookies == <<CookieLine(TRUE, FALSE, 1), CookieLine(FALSE, FALSE, 7)>>
ShortCookies == <<CookieLine(FALSE, FALSE, 5)>>
\* The cookies of another account.
OtherCookies == <<CookieLine(FALSE, FALSE, 6)>>
\* A cookie entry followed by a line of three fields.
MixedCookies == <<CookieLine(FALSE, FALSE, 7), CookieLine(FALSE, FALSE, 3)>>

CookieInputs == {NoCookies, ValidCookies, ShortCookies}

\* The format parameter: a container name, or text with a character that is
\* not allowed in a header value (a line feed).
FormatInputs == {"mp4", "\n"}

\* The resumeFrom query parameter as text; <<>> stands for an absent
\* parameter, which the handler defaults to '0'.
ResumeFromInputs ==
  {<<>>, <<"0">>, <<"2">>, <<"1", "2">>, <<"-", "3">>, <<"a">>,
   <<"2", "x">>}

\* res.setHeader throws ERR_INVALID_CHAR on a value with a control character.
validHeaderValue(format) == format # "\n"

NoHeader == {}
ContentRangeHeader(k) == {[unit |-> "bytes", start |-> k, end |-> "*", size |-> "*"]}

IdleReq ==
  [kind |-> "none", pc |-> "idle", tempCookiePath |-> 0, format |-> "mp4",
   resumeFrom |-> <<>>, resumeFromByte |-> 0, statusCode |-> 200, acceptRanges |-> FALSE,
   contentRange |-> NoHeader, headersSent |-> FALSE, ended |-> FALSE,
   body |-> <<>>, totalBytes |-> 0, proc |-> "none", produced |-> 0,
   killed |-> FALSE, clientClosed |-> FALSE, closeListener |-> FALSE,
   url |-> 0, wrote |-> FALSE, extractorError |-> <<>>, message |-> <<>>,
   filename |-> <<>>, downloadUrl |-> <<>>, cookies |-> NoCookies,
   cookieOption |-> "", json |-> FALSE, code |-> 0, accepted |-> 0]

\* The server has started without a cookie file of its own.
SInit ==
  /\ clock = 1
  /\ files = {}
  /\ req = [r \in Reqs |-> IdleReq]
  /\ USE_COOKIES = FALSE

\* The server has started, with or without a cookie file of its own.
ConfigInit ==
  /\ clock = 1
  /\ files = {}
  /\ req = [r \in Reqs |-> IdleReq]
  /\ USE_COOKIES \in BOOLEAN

\* The cookies option of the extractor call: the temporary file of the
\* request, else the server's cookie file if there is one, else none.
cookieOptionOf(rec) ==
  IF rec.tempCookiePath # 0 THEN "temp"
  ELSE IF USE_COOKIES THEN "server" ELSE "none"

\* Requests take the slots in order (the slots are interchangeable).
FreeSlot(r) ==
  /\ req[r].pc = "idle"
  /\ r > 1 => req[r - 1].pc # "idle"

\* res.status(code).json(...): sends the header section and ends the response.
\* On a response whose headers are already sent it cannot change the status.
SendJson(rec, code) ==
  IF rec.headersSent
    THEN [rec EXCEPT !.ended = TRUE]
    ELSE [rec EXCEPT !.statusCode = code, !.headersSent = TRUE, !.ended = TRUE,
                     !.json = TRUE]

\* Date.now() advances.
Tick ==
  /\ clock < MaxClock
  /\ clock' = clock + 1
  /\ UNCHANGED <<files, req, USE_COOKIES>>
  /\ UNCHANGED <<cvars, bvars, dvars, avars, hvars>>

(***************************************************************************)
(* GET /api/stream-download                                                *)
(***************************************************************************)
\* The range headers of the response, from the resume offset.
RangeHeaders(rec) ==
  IF isRangeRequest(rec.resumeFromByte)
    THEN [rec EXCEPT !.acceptRanges = TRUE,
                     !.contentRange = ContentRangeHeader(rec.resumeFromByte),
                     !.statusCode = 206]
    ELSE [rec EXCEPT !.acceptRanges = TRUE]

\* The synchronous part of the handler after the cookie file: headers, spawn
\* of yt-dlp, registration of the stdout, close, error and req 'close'
\* listeners.  An exception lands in the handler's catch block.
StreamSetup(rec, spawnOk) ==
  IF ~validHeaderValue(rec.format)
    THEN [SendJson(rec, 500) EXCEPT !.pc = "done"]
    ELSE [RangeHeaders(rec) EXCEPT
            !.pc = "streaming",
            !.cookieOption = cookieOptionOf(rec),
            !.proc = IF spawnOk THEN "running" ELSE "spawnfail",
            !.closeListener = TRUE]

StreamDownload(r, url, cookies, format, resumeFrom, spawnOk) ==
  /\ FreeSlot(r)
  /\ LET rec == [req[r] EXCEPT !.kind = "stream", !.format = format,
                               !.cookies = cookies,
                               !.resumeFrom = resumeFrom,
                               !.resumeFromByte =
                                  resumeFromByteOf(IF resumeFrom = <<>> THEN <<"0">> ELSE resumeFrom)]
     IN  IF ~url
           THEN /\ req' = [req EXCEPT ![r] = [SendJson(rec, 400) EXCEPT !.pc = "done"]]
           ELSE IF validateCookies(cookies)
             THEN /\ req' = [req EXCEPT ![r] = [rec EXCEPT !.tempCookiePath = clock,
                                                           !.pc = "writing"]]
             ELSE /\ req' = [req EXCEPT ![r] = StreamSetup(rec, spawnOk)]
  /\ UNCHANGED <<clock, files, USE_COOKIES>>
  /\ UNCHANGED <<cvars, bvars, dvars, avars, hvars>>

\* await fs.writeFile(tempCookiePath, cookies) completes; the handler goes on.
StreamCookieWritten(r, spawnOk) ==
  /\ req[r].kind = "stream"
  /\ req[r].pc = "writing"
  /\ files' = files \cup {req[r].tempCookiePath}
  /\ req' = [req EXCEPT ![r] = StreamSetup(req[r], spawnOk)]
  /\ UNCHANGED <<clock, USE_COOKIES>>
  /\ UNCHANGED <<cvars, bvars, dvars, avars, hvars>>

\* The i-th byte of yt-dlp's standard output.  The argument list of the
\* subprocess holds no offset (resumeFromByte is not passed on), so yt-dlp
\* writes the resource from its first byte whatever the resume offset is.
\* A byte of the resource is named by its position.
ytdlpOutput(resumeFromByte, i) == i

\* ytdlpProcess.stdout.on('data')
StdoutData(r) ==
  /\ req[r].proc = "running"
  /\ req[r].produced < StdoutLen
  /\ req' = [req EXCEPT ![r] = [@ EXCEPT !.produced = @ + 1,
                                         !.totalBytes = @ + 1,
                                         !.headersSent = TRUE,
                                         !.body = Append(@, ytdlpOutput(req[r].resumeFromByte,
                                                                        req[r].produced + 1))]]
  /\ UNCHANGED <<clock, files, USE_COOKIES>>
  /\ UNCHANGED <<cvars, bvars, dvars, avars, hvars>>

FinishResponse_Always500(rec, ok) ==
  IF ok THEN [rec EXCEPT !.ended = TRUE]
        ELSE [rec EXCEPT !.statusCode = 500, !.headersSent = TRUE, !.ended = TRUE,
                         !.json = TRUE]

\* The end of a 'close' or 'error' listener: unlink of the cookie file is
\* done before this; the response is ended, as an error when nothing was sent.
\* res.end() on a response that is ended already does nothing.
FinishResponse(rec, ok) ==
  IF ok THEN [rec EXCEPT !.ended = TRUE] ELSE SendJson(rec, 500)

\* The code 'close' is emitted with after a failed spawn: the negative errno.
UV_ENOENT == -2

ExitCodes == {0, 1, UV_ENOENT}

stdioClosed_OnExit(rec) == TRUE

\* 'close' is emitted when the process has ended and its stdio streams are
\* closed: every 'data' event of stdout comes before it.
stdioClosed(rec) == rec.produced = StdoutLen

\* ytdlpProcess.on('close'): code 0 after the whole output, a non-zero code
\* (or a signal) otherwise; after a failed spawn 'close' follows 'error'.
ProcessClose(r, code) ==
  /\ req[r].proc \in {"running", "errored"}
  /\ code = UV_ENOENT <=> req[r].proc = "errored"
  /\ code = 0 => /\ ~req[r].killed
                 /\ stdioClosed(req[r])
  /\ files' = IF req[r].tempCookiePath # 0 THEN files \ {req[r].tempCookiePath} ELSE files
  /\ req' = [req EXCEPT ![r] = [FinishResponse(@, code = 0) EXCEPT
                                   !.proc = "exited", !.pc = "done", !.code = code]]
  /\ UNCHANGED <<clock, USE_COOKIES>>
  /\ UNCHANGED <<cvars, bvars, dvars, avars, hvars>>

\* ytdlpProcess.on('error'): the subprocess could not be started.
ProcessError(r) ==
  /\ req[r].proc = "spawnfail"
  /\ files' = IF req[r].tempCookiePath # 0 THEN files \ {req[r].tempCookiePath} ELSE files
  /\ req' = [req EXCEPT ![r] = [SendJson(@, 500) EXCEPT !.proc = "errored", !.pc = "done",
                                                        !.code = UV_ENOENT]]
  /\ UNCHANGED <<clock, USE_COOKIES>>
  /\ UNCHANGED <<cvars, bvars, dvars, avars, hvars>>

\* The client connection closes.  A registered req.on('close') listener
\* runs ytdlpProcess.kill('SIGTERM'); an event with no listener is lost.
ClientClose(r) ==
  /\ req[r].kind = "stream"
  /\ req[r].pc \in {"writing", "streaming"}
  /\ ~req[r].clientClosed
  /\ ~req[r].ended
  /\ req' = [req EXCEPT ![r] = [@ EXCEPT
                !.clientClosed = TRUE,
                !.killed = @ \/ (req[r].closeListener /\ req[r].proc = "running")]]
  /\ UNCHANGED <<clock, files, USE_COOKIES>>
  /\ UNCHANGED <<cvars, bvars, dvars, avars, hvars>>

\* The client connection accepts the next byte of what res.write was given.
SocketAccept(r) ==
  /\ req[r].kind = "stream"
  /\ ~req[r].clientClosed
  /\ req[r].accepted < Len(req[r].body)
  /\ req' = [req EXCEPT ![r] = [@ EXCEPT !.accepted = @ + 1]]
  /\ UNCHANGED <<clock, files, USE_COOKIES>>
  /\ UNCHANGED <<cvars, bvars, dvars, avars, hvars>>

(***************************************************************************)
(* The downloads directory and /api/download-file/:filename (server.js).   *)
(*                                                                         *)
(* A path or a file name is a string, given as the sequence of its pieces: *)
(* "/" is the separator, ".." and "." are the special segments, any other  *)
(* piece is a run of ordinary characters.  startsWith is the prefix test   *)
(* on strings, so on the sequences of pieces.                              *)
(***************************************************************************)
NumGets == 2          \* HEAD and GET requests for files in one run
MaxTime == 4          \* ticks of 10 s the model runs for
DeleteDelay == 3      \* setTimeout(..., 30000), in ticks of 10 s

Gets == 1..NumGets

__dirname == <<"/", "app">>

\* The segments of a path: split on "/", empty segments dropped.
RECURSIVE Segments(_, _)
Segments(s, cur) ==
  IF s = <<>> THEN (IF cur = <<>> THEN <<>> ELSE <<cur>>)
  ELSE IF Head(s) = "/"
         THEN (IF cur = <<>> THEN <<>> ELSE <<cur>>) \o Segments(Tail(s), <<>>)
         ELSE Segments(Tail(s), Append(cur, Head(s)))

\* path.normalize on the segments of an absolute path: "." is dropped, ".."
\* removes the segment before it (none at the root).
RECURSIVE Resolve(_, _)
Resolve(segs, out) ==
  IF segs = <<>> THEN out
  ELSE IF Head(segs) = <<".">> THEN Resolve(Tail(segs), out)
  ELSE IF Head(segs) = <<"..">>
         THEN Resolve(Tail(segs), IF out = <<>> THEN <<>> ELSE SubSeq(out, 1, Len(out) - 1))
         ELSE Resolve(Tail(segs), Append(out, Head(segs)))

RECURSIVE PathOf(_)
PathOf(segs) ==
  IF segs = <<>> THEN <<>> ELSE <<"/">> \o Head(segs) \o PathOf(Tail(segs))

\* path.join(a, b) for an absolute a.
pathJoin(a, b) ==
  LET p == PathOf(Resolve(Segments(a \o <<"/">> \o b, <<>>), <<>>))
  IN  IF p = <<>> THEN <<"/">> ELSE p

\* String.prototype.startsWith
startsWith(s, prefix) ==
  /\ Len(s) >= Len(prefix)
  /\ SubSeq(s, 1, Len(prefix)) = prefix

outputDir == pathJoin(__dirname, <<"downloads">>)

filePathOf(filename) == pathJoin(outputDir, filename)

\* The security check of the HEAD and GET handlers.
securityCheck(filePath) == startsWith(filePath, outputDir)

\* decodeURIComponent, as Express applies it to the :filename parameter,
\* and encodeURIComponent, on the pieces of a string.
decodePiece(p) ==
  CASE p = "%2F" -> "/" [] p = "%20" -> " " [] OTHER -> p

encodePiece(p) ==
  CASE p = "/" -> "%2F" [] p = " " -> "%20" [] OTHER -> p

decodeURIComponent(s) == [k \in 1..Len(s) |-> decodePiece(s[k])]

encodeURIComponent(s) == [k \in 1..Len(s) |-> encodePiece(s[k])]

\* path.extname(file).toLowerCase(), for names whose last piece is the
\* extension.
extname(file) ==
  IF file # <<>> /\ file[Len(file)] \in {".mp4", ".mp3", ".webm", ".txt", ".js"}
    THEN file[Len(file)] ELSE ""

\* The file yt-dlp writes for a URL: '%(title)s.%(ext)s' in outputDir.
Urls == {1, 2}

Title(url) == IF url = 1 THEN <<"a", ".mp4">> ELSE <<"b", " ", "c", ".mp4">>

\* Files other than downloads: one in a sibling directory whose name begins
\* with 'downloads', one in the application directory.
SiblingFile == <<"/", "app", "/", "downloads", "_old", "/", "x", ".mp4">>
ServerFile == <<"/", "app", "/", "server", ".js">>

\* The :filename parameter as the client sends it (percent-encoded).
FilenameInputs ==
  {encodeURIComponent(Title(1)),
   encodeURIComponent(Title(2)),
   <<"..", "%2F", "server", ".js">>,
   <<"..", "%2F", "downloads", "_old", "%2F", "x", ".mp4">>,
   <<"..", "%2F", "downloads", "%2F", "a", ".mp4">>}

\* What is on the disk: files by path, with their modification time (a
\* counter: later writes have larger times) and whose bytes they hold (the
\* URL they were downloaded from, 0 for a file that is no download).
existsSync(path) == \E f \in disk : f.path = path

FileAt(path) == CHOOSE f \in disk : f.path = path

\* fs.readdir(outputDir) with the fs.stat of each entry.
filesWithStats ==
  {[file |-> SubSeq(f.path, Len(outputDir) + 2, Len(f.path)), mtime |-> f.mtime] :
     f \in {g \in disk : /\ startsWith(g.path, outputDir \o <<"/">>)
                         /\ \A k \in (Len(outputDir) + 2)..Len(g.path) : g.path[k] # "/"}}

Newest(items) == CHOOSE a \in items : \A b \in items : b.mtime <= a.mtime

\* sortedFiles.find(media extension) || sortedFiles[0], <<>> for undefined.
downloadedFile ==
  LET media == {a \in filesWithStats : extname(a.file) \in {".mp4", ".mp3", ".webm"}}
  IN  IF media # {} THEN Newest(media).file
      ELSE IF filesWithStats # {} THEN Newest(filesWithStats).file
      ELSE <<>>

IdleGet ==
  [method |-> "none", pc |-> "idle", param |-> <<>>, filePath |-> <<>>,
   statusCode |-> 0, read |-> FALSE, completedAt |-> 0]

\* No request for a file was made; the downloads directory is empty.
DIdle ==
  /\ disk = {[path |-> SiblingFile, mtime |-> 0, content |-> 0],
             [path |-> ServerFile, mtime |-> 0, content |-> 0]}
  /\ mseq = 1
  /\ now = 0
  /\ gets = [g \in Gets |-> IdleGet]
  /\ timers = {}

\* Two downloads have been materialized.
DInit ==
  /\ disk = {[path |-> SiblingFile, mtime |-> 0, content |-> 0],
             [path |-> ServerFile, mtime |-> 0, content |-> 0],
             [path |-> filePathOf(Title(1)), mtime |-> 1, content |-> 1],
             [path |-> filePathOf(Title(2)), mtime |-> 2, content |-> 2]}
  /\ mseq = 3
  /\ now = 0
  /\ gets = [g \in Gets |-> IdleGet]
  /\ timers = {}

FreeGet(g) ==
  /\ gets[g].pc = "idle"
  /\ g > 1 => gets[g - 1].pc # "idle"

\* The handler up to the existence check: 403, 404, or the file is there.
Lookup(method, param) ==
  LET filename == decodeURIComponent(param)
      filePath == filePathOf(filename)
      rec == [IdleGet EXCEPT !.method = method, !.param = param, !.filePath = filePath]
  IN  IF ~securityCheck(filePath)
        THEN [rec EXCEPT !.statusCode = 403, !.pc = "done"]
        ELSE IF ~existsSync(filePath)
          THEN [rec EXCEPT !.statusCode = 404, !.pc = "done"]
          ELSE [rec EXCEPT !.read = TRUE]

\* HEAD /api/download-file/:filename: statSync and the headers.
headFile(g, param) ==
  /\ FreeGet(g)
  /\ LET rec == Lookup("HEAD", param)
     IN  gets' = [gets EXCEPT ![g] =
                    IF rec.pc = "done" THEN rec
                    ELSE [rec EXCEPT !.statusCode = 200, !.pc = "done", !.completedAt = now]]
  /\ UNCHANGED <<disk, mseq, now, timers>>
  /\ UNCHANGED <<svars, cvars, bvars, avars, hvars>>

\* GET /api/download-file/:filename up to res.download: the file starts to
\* be streamed, the whole of it or the range asked for.
getFile(g, param, range) ==
  /\ FreeGet(g)
  /\ LET rec == Lookup("GET", param)
     IN  gets' = [gets EXCEPT ![g] =
                    IF rec.pc = "done" THEN rec
                    ELSE [rec EXCEPT !.statusCode = IF range THEN 206 ELSE 200,
                                     !.pc = "serving"]]
  /\ UNCHANGED <<disk, mseq, now, timers>>
  /\ UNCHANGED <<svars, cvars, bvars, avars, hvars>>

\* The callback of res.download: with an error (the client went away) the
\* headers are sent already and nothing else is done; without one the
\* deletion of the file is scheduled.
downloadCallback(g, err) ==
  /\ gets[g].pc = "serving"
  /\ gets' = [gets EXCEPT ![g] = [@ EXCEPT !.pc = IF err THEN "failed" ELSE "done",
                                           !.completedAt = now]]
  /\ timers' = IF err THEN timers
               ELSE timers \cup {[filePath |-> gets[g].filePath, due |-> now + DeleteDelay,
                                  g |-> g]}
  /\ UNCHANGED <<disk, mseq, now>>
  /\ UNCHANGED <<svars, cvars, bvars, avars, hvars>>

\* The timer of a served file fires: fs.unlink(filePath), an error of which
\* is only logged.
unlinkTimer(g) ==
  /\ \E t \in timers :
        /\ t.g = g
        /\ t.due <= now
        /\ timers' = timers \ {t}
        /\ disk' = {f \in disk : f.path # t.filePath}
  /\ UNCHANGED <<mseq, now, gets>>
  /\ UNCHANGED <<svars, cvars, bvars, avars, hvars>>

\* Ten seconds pass; a timer that is due fires first.
Wait ==
  /\ now < MaxTime
  /\ \A t \in timers : t.due > now
  /\ now' = now + 1
  /\ UNCHANGED <<disk, mseq, gets, timers>>
  /\ UNCHANGED <<svars, cvars, bvars, avars, hvars>>

DNext ==
  \/ \E g \in Gets, param \in FilenameInputs : headFile(g, param)
  \/ \E g \in Gets, param \in FilenameInputs, range \in BOOLEAN : getFile(g, param, range)
  \/ \E g \in Gets, err \in BOOLEAN : downloadCallback(g, err)
  \/ \E g \in Gets : unlinkTimer(g)
  \/ Wait

(***************************************************************************)
(* POST /api/analyze (analyzeVideoUrl) and POST /api/download              *)
(* (downloadContent): the temporary cookie file, the extractor's outcome   *)
(* and, for a download, the file that is reported.                         *)
(***************************************************************************)
\* What error.message of a failed ytdlp(url, options) holds, by its pieces:
\* the ERROR line of yt-dlp, which names the extractor and the video id.
BotCheck ==
  <<"ERROR:", "[youtube]", "abc", ":", "Sign in to confirm you're not a bot">>
TooManyRequests ==
  <<"ERROR:", "Unable to download webpage:", "HTTP Error ", "429", ": Too Many Requests">>
PrivateVideo ==
  <<"ERROR:", "[youtube]", "abc", ":", "Private video">>
\* The video whose id is x429y is unavailable.
UnavailableVideo ==
  <<"ERROR:", "[youtube]", "x", "429", "y", ":", "Video unavailable">>
Forbidden ==
  <<"ERROR:", "unable to download video data:", "HTTP Error 403", ": Forbidden">>
UnsupportedUrl ==
  <<"ERROR:", "Unsupported URL">>

ExtractorErrors ==
  {BotCheck, TooManyRequests, PrivateVideo, UnavailableVideo, Forbidden, UnsupportedUrl}

Success == <<>>

ExtractorOutcomes == {Success} \cup ExtractorErrors

\* The messages the server words itself.
BlockedAnalyze ==
  <<"YouTube has temporarily blocked this request. Please provide valid YouTube cookies or try again later.">>
BlockedDownload ==
  <<"YouTube has temporarily blocked download requests. Please provide valid YouTube cookies or try again later.">>
VideoRestricted ==
  <<"This video is private, unavailable, or restricted in your region.">>
AccessDenied ==
  <<"Access denied. The video may be geo-blocked or require authentication.">>

\* The catch block of analyzeVideoUrl: the message of the Error it throws.
analyzeError(errorMessage) ==
  IF includes(errorMessage, "Sign in to confirm you're not a bot")
       \/ includes(errorMessage, "429")
    THEN BlockedAnalyze
    ELSE IF includes(errorMessage, "Video unavailable")
              \/ includes(errorMessage, "Private video")
      THEN VideoRestricted
      ELSE IF errorMessage # <<>> THEN errorMessage
                                  ELSE <<"Failed to analyze video URL">>

\* The catch block of downloadContent.
downloadError(errorMessage) ==
  IF includes(errorMessage, "Sign in to confirm you're not a bot")
       \/ includes(errorMessage, "429")
    THEN BlockedDownload
    ELSE IF includes(errorMessage, "Video unavailable")
              \/ includes(errorMessage, "Private video")
      THEN VideoRestricted
      ELSE IF includes(errorMessage, "HTTP Error 403")
        THEN AccessDenied
        ELSE IF errorMessage # <<>> THEN errorMessage ELSE <<"Download failed">>

\* The catch block of a route: res.status(500).json({error, message}).
SendError(rec, message) ==
  [SendJson(rec, 500) EXCEPT !.message = message]

\* analyzeVideoUrl up to its first await: with valid user cookies the
\* temporary path is chosen and fs.writeFile started, otherwise yt-dlp is
\* called at once.
analyzeVideoUrl(r, cookies) ==
  /\ FreeSlot(r)
  /\ req' = [req EXCEPT ![r] =
        IF validateCookies(cookies)
          THEN [@ EXCEPT !.kind = "analyze", !.cookies = cookies,
                         !.tempCookiePath = clock, !.pc = "writing"]
          ELSE [@ EXCEPT !.kind = "analyze", !.cookies = cookies,
                         !.cookieOption = cookieOptionOf(req[r]),
                         !.pc = "extracting", !.proc = "running"]]
  /\ UNCHANGED <<clock, files, USE_COOKIES>>
  /\ UNCHANGED <<cvars, bvars, dvars, avars, hvars>>

\* fs.writeFile done; options.cookies is set and yt-dlp is called.
analyzeCookieWritten(r) ==
  /\ req[r].kind = "analyze"
  /\ req[r].pc = "writing"
  /\ files' = files \cup {req[r].tempCookiePath}
  /\ req' = [req EXCEPT ![r] = [@ EXCEPT !.cookieOption = cookieOptionOf(req[r]),
                                         !.pc = "extracting", !.proc = "running"]]
  /\ UNCHANGED <<clock, USE_COOKIES>>
  /\ UNCHANGED <<cvars, bvars, dvars, avars, hvars>>

\* await ytdlp(url, options) settles: both the try and the catch branch
\* unlink the temporary file; the route answers 200 with the metadata, or
\* 500 with the message of the error analyzeVideoUrl threw.
analyzeExtracted(r, outcome) ==
  /\ req[r].kind = "analyze"
  /\ req[r].pc = "extracting"
  /\ files' = IF req[r].tempCookiePath # 0 THEN files \ {req[r].tempCookiePath} ELSE files
  /\ req' = [req EXCEPT ![r] =
        [(IF outcome = Success
            THEN SendJson(@, 200)
            ELSE [SendError(@, analyzeError(outcome)) EXCEPT !.extractorError = outcome])
         EXCEPT !.pc = "done", !.proc = "exited"]]
  /\ UNCHANGED <<clock, USE_COOKIES>>
  /\ UNCHANGED <<cvars, bvars, dvars, avars, hvars>>

\* downloadContent up to the await of fs.writeFile (or of yt-dlp).
downloadContent(r, url, cookies) ==
  /\ FreeSlot(r)
  /\ req' = [req EXCEPT ![r] =
        IF validateCookies(cookies)
          THEN [@ EXCEPT !.kind = "download", !.url = url, !.cookies = cookies,
                         !.tempCookiePath = clock, !.pc = "writing"]
          ELSE [@ EXCEPT !.kind = "download", !.url = url, !.cookies = cookies,
                         !.cookieOption = cookieOptionOf(req[r]),
                         !.pc = "extracting", !.proc = "running"]]
  /\ UNCHANGED <<clock, files, USE_COOKIES>>
  /\ UNCHANGED <<cvars, bvars, dvars, avars, hvars>>

downloadCookieWritten(r) ==
  /\ req[r].kind = "download"
  /\ req[r].pc = "writing"
  /\ files' = files \cup {req[r].tempCookiePath}
  /\ req' = [req EXCEPT ![r] = [@ EXCEPT !.cookieOption = cookieOptionOf(req[r]),
                                         !.pc = "extracting", !.proc = "running"]]
  /\ UNCHANGED <<clock, USE_COOKIES>>
  /\ UNCHANGED <<cvars, bvars, dvars, avars, hvars>>

\* The yt-dlp process of a download writes its output file,
\* '<outputDir>/%(title)s.%(ext)s', replacing a file of that name.
ytdlpWritesFile(r) ==
  /\ req[r].kind = "download"
  /\ req[r].pc = "extracting"
  /\ ~req[r].wrote
  /\ disk' = {f \in disk : f.path # filePathOf(Title(req[r].url))}
               \cup {[path |-> filePathOf(Title(req[r].url)), mtime |-> mseq,
                      content |-> req[r].url]}
  /\ mseq' = mseq + 1
  /\ req' = [req EXCEPT ![r] = [@ EXCEPT !.wrote = TRUE]]
  /\ UNCHANGED <<clock, files, USE_COOKIES>>
  /\ UNCHANGED <<now, gets, timers>>
  /\ UNCHANGED <<cvars, bvars, avars, hvars>>

\* await ytdlp(url, options) settles: if (tempCookiePath) unlink, on both
\* branches.  After a success the newest file of the downloads directory is
\* looked up and reported; after a failure the route answers 500 with the
\* message of the error downloadContent threw.
downloadExtracted(r, outcome) ==
  /\ req[r].kind = "download"
  /\ req[r].pc = "extracting"
  /\ outcome = Success => req[r].wrote
  /\ files' = IF req[r].tempCookiePath # 0 THEN files \ {req[r].tempCookiePath} ELSE files
  /\ req' = [req EXCEPT ![r] =
        [(IF outcome = Success
            THEN [SendJson(@, 200) EXCEPT
                    !.message = IF downloadedFile # <<>>
                                  THEN <<"Download completed successfully">>
                                  ELSE <<"Download completed but file not found in expected location">>,
                    !.filename = downloadedFile,
                    !.downloadUrl = IF downloadedFile # <<>>
                                      THEN <<"/", "api", "/", "download-file", "/">>
                                             \o encodeURIComponent(downloadedFile)
                                      ELSE <<>>]
            ELSE [SendError(@, downloadError(outcome)) EXCEPT !.extractorError = outcome])
         EXCEPT !.pc = "done", !.proc = "exited"]]
  /\ UNCHANGED <<clock, USE_COOKIES>>
  /\ UNCHANGED <<cvars, bvars, dvars, avars, hvars>>

\* Requests of every kind in the slots, with no cookies or a valid blob (the
\* other blobs are inputs of the one-request specifications).
SNext ==
  \/ Tick
  \/ \E r \in Reqs, url \in BOOLEAN, cookies \in {NoCookies, ValidCookies}, format \in FormatInputs,
        resumeFrom \in ResumeFromInputs, spawnOk \in BOOLEAN :
        StreamDownload(r, url, cookies, format, resumeFrom, spawnOk)
  \/ \E r \in Reqs, spawnOk \in BOOLEAN : StreamCookieWritten(r, spawnOk)
  \/ \E r \in Reqs : StdoutData(r)
  \/ \E r \in Reqs, code \in ExitCodes : ProcessClose(r, code)
  \/ \E r \in Reqs : ProcessError(r)
  \/ \E r \in Reqs : ClientClose(r)
  \/ \E r \in Reqs, cookies \in {NoCookies, ValidCookies} : analyzeVideoUrl(r, cookies)
  \/ \E r \in Reqs : analyzeCookieWritten(r)
  \/ \E r \in Reqs, outcome \in {Success, BotCheck} : analyzeExtracted(r, outcome)
  \/ \E r \in Reqs, url \in Urls, cookies \in {NoCookies, ValidCookies} : downloadContent(r, url, cookies)
  \/ \E r \in Reqs : downloadCookieWritten(r)
  \/ \E r \in Reqs : ytdlpWritesFile(r)
  \/ \E r \in Reqs, outcome \in {Success, BotCheck} : downloadExtracted(r, outcome)


(***************************************************************************)
(* The pause/resume client (App.tsx, streaming version).                   *)
(*                                                                         *)
(* The React state of the component, and the running invocations of        *)
(* startDownload.  startDownload is a closure of the render in which the   *)
(* handler that calls it was created: inside one invocation isPaused,      *)
(* downloadedBytes, downloadedChunks and retryCount are the values of that *)
(* render, whatever the state has become since.  The functional updates    *)
(* (setDownloadedChunks(prev => ...), setRetryCount(prev => ...)) act on   *)
(* the current state.                                                      *)
(***************************************************************************)
MaxInv == 4           \* invocations of startDownload in one run of the model
MaxChunk == 2         \* longest chunk reader.read() returns

Invs == 1..MaxInv

RECURSIVE Flatten(_)
Flatten(cs) ==
  IF cs = <<>> THEN <<>> ELSE Head(cs) \o Flatten(Tail(cs))

RECURSIVE SumLen(_)
SumLen(cs) ==
  IF cs = <<>> THEN 0 ELSE Len(Head(cs)) + SumLen(Tail(cs))

\* The body of the response to a stream fetch: what the server relays.
ResponseBody(resumeFromByte) ==
  [i \in 1..StdoutLen |-> ytdlpOutput(resumeFromByte, i)]

\* The resource, byte by byte.
Resource == [i \in 1..StdoutLen |-> i]

\* An error object: its name and its message, the message as its words.
NoError == [name |-> "", message |-> <<>>]

NoInv ==
  [pc |-> "none", origin |-> "none", resumeFromByte |-> 0, pos |-> 0,
   isPaused |-> FALSE, downloadedBytes |-> 0, downloadedChunks |-> <<>>,
   retryCount |-> 0, caught |-> NoError, delay |-> 0, after |-> 0]

\* An invocation that is over keeps how it ended and what it asked for.
Over(rec, how) ==
  [NoInv EXCEPT !.pc = how, !.origin = rec.origin,
                !.resumeFromByte = rec.resumeFromByte, !.pos = rec.pos]

CInit ==
  /\ isPaused = FALSE
  /\ downloadedChunks = <<>>
  /\ downloadedBytes = 0
  /\ retryCount = 0
  /\ downloading = FALSE
  /\ abortController = 0
  /\ error = <<>>
  /\ inv = [i \in Invs |-> NoInv]
  /\ nextInv = 0
  /\ saved = <<>>

\* startDownload(resumeFromByte) up to await fetch(...): a new
\* AbortController, the request with resumeFrom (and Range) set.
startDownload(snap, resumeFromByte, origin) ==
  [pc |-> "fetching", origin |-> origin, resumeFromByte |-> resumeFromByte,
   pos |-> 0, isPaused |-> snap.isPaused,
   downloadedBytes |-> snap.downloadedBytes,
   downloadedChunks |-> snap.downloadedChunks,
   retryCount |-> snap.retryCount, caught |-> NoError, delay |-> 0, after |-> 0]

\* The values a closure created in the current render holds.
Render ==
  [isPaused |-> isPaused, downloadedBytes |-> downloadedBytes,
   downloadedChunks |-> downloadedChunks, retryCount |-> retryCount]

\* handleDownload: resetDownloadState(); setDownloading(true); setError('');
\* startDownload(0).  The button is rendered when downloading is false.
handleDownload ==
  /\ ~downloading
  /\ nextInv < MaxInv
  /\ nextInv' = nextInv + 1
  /\ inv' = [inv EXCEPT ![nextInv + 1] = startDownload(Render, 0, "download")]
  /\ abortController' = nextInv + 1
  /\ downloadedChunks' = <<>>
  /\ downloadedBytes' = 0
  /\ retryCount' = 0
  /\ isPaused' = FALSE
  /\ downloading' = TRUE
  /\ error' = <<>>
  /\ UNCHANGED saved
  /\ UNCHANGED <<svars, bvars, dvars, avars, hvars>>

\* What controller.abort() rejects the pending fetch or read with.
AbortError ==
  [name |-> "AbortError", message |-> <<"The", "user", "aborted", "a", "request.">>]

\* response.statusText of the statuses the server answers with.
statusText(status) ==
  CASE status = 200 -> <<"OK">>
    [] status = 206 -> <<"Partial", "Content">>
    [] status = 429 -> <<"Too", "Many", "Requests">>
    [] status = 500 -> <<"Internal", "Server", "Error">>

Statuses == {200, 429, 500}

\* throw new Error(`Download failed: ${response.statusText}`)
HttpError(status) ==
  [name |-> "Error", message |-> <<"Download", "failed:">> \o statusText(status)]

\* What a fetch that cannot reach the server rejects with (Chrome, Safari),
\* and what reader.read() rejects with when the connection breaks (Chrome,
\* Firefox).
FetchErrors ==
  {[name |-> "TypeError", message |-> <<"Failed", "to", "fetch">>],
   [name |-> "TypeError", message |-> <<"Load", "failed">>]}

ReadErrors ==
  {[name |-> "TypeError", message |-> <<"network", "error">>],
   [name |-> "TypeError", message |-> <<"Error", "in", "input", "stream">>]}

isNetworkMessage_Failed(message) ==
  includes(message, "network") \/ includes(message, "fetch")
    \/ includes(message, "failed:")

\* err.message.includes('network') || err.message.includes('fetch')
isNetworkMessage(message) ==
  includes(message, "network") \/ includes(message, "fetch")

\* The delay of the retry timer, in ms: setTimeout(..., 2000).
retryDelay(count) == 2000

\* The catch block of startDownload, run by invocation rec on error err:
\* what becomes of the invocation, whether setRetryCount(prev => prev + 1)
\* is called (and the retry timer set), and whether setError is called.
catchBlock(rec, err) ==
  IF err.name = "AbortError"
    THEN [rec |-> [Over(rec, "aborted") EXCEPT !.caught = err],
          retry |-> FALSE, setError |-> FALSE, message |-> <<>>]
    ELSE IF isNetworkMessage(err.message)
      THEN IF rec.retryCount < 3
             THEN [rec |-> [rec EXCEPT !.pc = "timer", !.caught = err,
                                       !.delay = retryDelay(rec.retryCount)],
                   retry |-> TRUE, setError |-> FALSE, message |-> <<>>]
             ELSE [rec |-> [Over(rec, "failed") EXCEPT !.caught = err],
                   retry |-> FALSE, setError |-> TRUE,
                   message |-> <<"Network", "error:", "Maximum", "retries", "exceeded.",
                                 "You", "can", "resume", "the", "download.">>]
      ELSE [rec |-> [Over(rec, "failed") EXCEPT !.caught = err],
            retry |-> FALSE, setError |-> TRUE,
            message |-> IF err.message = <<>> THEN <<"Failed", "to", "download">>
                                              ELSE err.message]

\* Invocation i throws err inside its try block.
Throw(i, err) ==
  LET c == catchBlock(inv[i], err)
  IN  /\ inv' = [inv EXCEPT ![i] = c.rec]
      /\ retryCount' = IF c.retry THEN retryCount + 1 ELSE retryCount
      /\ error' = IF c.setError THEN c.message ELSE error

\* await fetch(...) resolves.  A response that is not ok throws
\* 'Download failed: ...'.  With an ok response the read loop is entered,
\* unless the closure's isPaused is true: then the loop and the completion
\* are skipped.
FetchResolve(i, status) ==
  /\ inv[i].pc = "fetching"
  /\ IF status \notin 200..299
       THEN Throw(i, HttpError(status))
       ELSE /\ inv' = [inv EXCEPT ![i] =
                         IF @.isPaused THEN Over(@, "returned")
                                       ELSE [@ EXCEPT !.pc = "reading"]]
            /\ UNCHANGED <<error, retryCount>>
  /\ UNCHANGED <<isPaused, downloadedChunks, downloadedBytes,
                 downloading, abortController, nextInv, saved>>
  /\ UNCHANGED <<svars, bvars, dvars, avars, hvars>>

\* await fetch(...) rejects: the server cannot be reached.
FetchFail(i, err) ==
  /\ inv[i].pc = "fetching"
  /\ Throw(i, err)
  /\ UNCHANGED <<isPaused, downloadedChunks, downloadedBytes, downloading,
                 abortController, nextInv, saved>>
  /\ UNCHANGED <<svars, bvars, dvars, avars, hvars>>

\* One turn of the read loop: reader.read() returns a chunk of len bytes.
ReadChunk(i, len) ==
  /\ inv[i].pc = "reading"
  /\ inv[i].pos + len <= StdoutLen
  /\ LET value == SubSeq(ResponseBody(inv[i].resumeFromByte),
                         inv[i].pos + 1, inv[i].pos + len)
     IN  /\ downloadedChunks' = Append(downloadedChunks, value)
         /\ downloadedBytes' = inv[i].downloadedBytes + Len(value)
  /\ inv' = [inv EXCEPT ![i] = [@ EXCEPT !.pos = @ + len]]
  /\ UNCHANGED <<isPaused, retryCount, downloading, abortController, error,
                 nextInv, saved>>
  /\ UNCHANGED <<svars, bvars, dvars, avars, hvars>>

\* reader.read() returns done: the whole body was read, or the server ended
\* a stream it had begun (extractor failure after the first byte).  The
\* completion test and the Blob use the closure's downloadedChunks.
ReadDone(i) ==
  /\ inv[i].pc = "reading"
  /\ inv[i].pos >= 1
  /\ IF inv[i].downloadedChunks # <<>>
       THEN /\ saved' = Append(saved, Flatten(inv[i].downloadedChunks))
            /\ downloadedChunks' = <<>>
            /\ downloadedBytes' = 0
            /\ retryCount' = 0
            /\ isPaused' = FALSE
            /\ inv' = [inv EXCEPT ![i] = Over(@, "saved")]
       ELSE /\ inv' = [inv EXCEPT ![i] = Over(@, "returned")]
            /\ UNCHANGED <<saved, downloadedChunks, downloadedBytes, retryCount,
                           isPaused>>
  /\ UNCHANGED <<downloading, abortController, error, nextInv>>
  /\ UNCHANGED <<svars, bvars, dvars, avars, hvars>>

\* reader.read() rejects: the connection broke.
ReadError(i, err) ==
  /\ inv[i].pc = "reading"
  /\ Throw(i, err)
  /\ UNCHANGED <<isPaused, downloadedChunks, downloadedBytes, downloading,
                 abortController, nextInv, saved>>
  /\ UNCHANGED <<svars, bvars, dvars, avars, hvars>>

\* The retry timer fires: startDownload(downloadedBytes) of the closure that
\* scheduled it.  The new invocation keeps the delay it was started after.
RetryTimer(i) ==
  /\ inv[i].pc = "timer"
  /\ nextInv < MaxInv
  /\ nextInv' = nextInv + 1
  /\ inv' = [inv EXCEPT ![i] = Over(@, "retried"),
                        ![nextInv + 1] =
                           [startDownload(inv[i], inv[i].downloadedBytes, "retry")
                              EXCEPT !.after = inv[i].delay]]
  /\ abortController' = nextInv + 1
  /\ UNCHANGED <<isPaused, downloadedChunks, downloadedBytes, retryCount,
                 downloading, error, saved>>
  /\ UNCHANGED <<svars, bvars, dvars, avars, hvars>>

\* controller.abort(): the pending fetch or read of that controller's
\* invocation rejects with an AbortError, which its catch block handles.
\* A null controller, or one whose invocation is over, has nothing to reject.
Pending(c) == c \in Invs /\ inv[c].pc \in {"fetching", "reading"}

Abort(c) ==
  [i \in Invs |->
     IF i = c /\ Pending(c) THEN catchBlock(inv[i], AbortError).rec ELSE inv[i]]

\* handlePauseResume.
handlePauseResume ==
  /\ downloading
  /\ IF isPaused
       THEN /\ nextInv < MaxInv
            /\ isPaused' = FALSE
            /\ nextInv' = nextInv + 1
            /\ inv' = [inv EXCEPT ![nextInv + 1] =
                         startDownload(Render, downloadedBytes, "resume")]
            /\ abortController' = nextInv + 1
            /\ UNCHANGED <<retryCount, error>>
       ELSE /\ isPaused' = TRUE
            /\ IF Pending(abortController)
                 THEN Throw(abortController, AbortError)
                 ELSE UNCHANGED <<inv, retryCount, error>>
            /\ UNCHANGED <<nextInv, abortController>>
  /\ UNCHANGED <<downloadedChunks, downloadedBytes, downloading, saved>>
  /\ UNCHANGED <<svars, bvars, dvars, avars, hvars>>

\* The Cancel button: handleCancelDownload(); setDownloading(false);
\* resetDownloadState().
handleCancelDownload ==
  /\ downloading
  /\ inv' = Abort(abortController)
  /\ error' = IF Pending(abortController)
                   /\ catchBlock(inv[abortController], AbortError).setError
                THEN catchBlock(inv[abortController], AbortError).message
                ELSE error
  /\ downloading' = FALSE
  /\ downloadedChunks' = <<>>
  /\ downloadedBytes' = 0
  /\ retryCount' = 0
  /\ isPaused' = FALSE
  /\ UNCHANGED <<abortController, nextInv, saved>>
  /\ UNCHANGED <<svars, bvars, dvars, avars, hvars>>

CNext ==
  \/ handleDownload
  \/ \E i \in Invs, status \in Statuses : FetchResolve(i, status)
  \/ \E i \in Invs, err \in FetchErrors : FetchFail(i, err)
  \/ \E i \in Invs, len \in 1..MaxChunk : ReadChunk(i, len)
  \/ \E i \in Invs : ReadDone(i)
  \/ \E i \in Invs, err \in ReadErrors : ReadError(i, err)
  \/ \E i \in Invs : RetryTimer(i)
  \/ handlePauseResume
  \/ handleCancelDownload

(***************************************************************************)
(* The file-relay client (App.tsx, progress-tracking version):             *)
(* downloadWithSpeedBoost and downloadSequentially on one file of the      *)
(* downloads directory.  A byte of the file is named by its offset.        *)
(***************************************************************************)
MaxTotal == 4           \* largest file size
MaxConnections == 8     \* the 'Parallel Connections' slider: min 1, max 8

Min(a, b) == IF a < b THEN a ELSE b

chunkSize_Floor == total \div parallelConnections

\* Math.ceil(total / parallelConnections)
chunkSize == (total + parallelConnections - 1) \div parallelConnections

RangeStart(index) == index * chunkSize

RangeEnd_OffByOne(index) == Min(RangeStart(index) + chunkSize, total - 1)

RangeEnd(index) == Min(RangeStart(index) + chunkSize - 1, total - 1)

\* The body of a 206 response to 'Range: bytes=start-end'.
RangeBody(start, end) == [k \in 1..(end - start + 1) |-> start + k - 1]

\* The body of a 200 response: the whole file.
FileBody == [k \in 1..total |-> k - 1]

Indexes == 0..(parallelConnections - 1)

NULL == [null |-> TRUE, data |-> <<>>]

\* No download of a file is under way.
BIdle ==
  /\ total = 0
  /\ parallelConnections = 4
  /\ bphase = "idle"
  /\ bpc = <<>>
  /\ chunkData = <<>>
  /\ chunks = <<>>
  /\ totalDownloaded = 0
  /\ finished = <<>>
  /\ boostBlob = <<>>
  /\ sphase = "idle"
  /\ seqChunks = <<>>
  /\ seqBlob = <<>>

\* A file of some size is to be fetched, with some slider setting.
BInit ==
  /\ total \in 1..MaxTotal
  /\ parallelConnections \in 1..MaxConnections
  /\ bphase = "idle"
  /\ bpc = [index \in Indexes |-> "idle"]
  /\ chunkData = [index \in Indexes |-> <<>>]
  /\ chunks = [index \in Indexes |-> NULL]
  /\ totalDownloaded = 0
  /\ finished = <<>>
  /\ boostBlob = <<>>
  /\ sphase = "idle"
  /\ seqChunks = <<>>
  /\ seqBlob = <<>>

\* The 'Parallel Connections' slider (min 1, max 8) is moved while no
\* download runs: setParallelConnections(parseInt(e.target.value)).
setParallelConnections(value) ==
  /\ bphase = "idle"
  /\ sphase = "idle"
  /\ value # parallelConnections
  /\ parallelConnections' = value
  /\ bpc' = [index \in 0..(value - 1) |-> "idle"]
  /\ chunkData' = [index \in 0..(value - 1) |-> <<>>]
  /\ chunks' = [index \in 0..(value - 1) |-> NULL]
  /\ UNCHANGED <<total, bphase, totalDownloaded, finished, boostBlob, sphase,
                 seqChunks, seqBlob>>
  /\ UNCHANGED <<svars, cvars, dvars, avars, hvars>>

\* downloadWithSpeedBoost up to Promise.all: the N async functions run to
\* their first await; one whose range starts at or after total returns.
downloadWithSpeedBoost ==
  /\ bphase = "idle"
  /\ bphase' = "running"
  /\ bpc' = [index \in Indexes |->
               IF RangeStart(index) >= total THEN "done" ELSE "fetching"]
  /\ UNCHANGED <<total, parallelConnections, chunkData, chunks,
                 totalDownloaded, finished, boostBlob, sphase, seqChunks, seqBlob>>
  /\ UNCHANGED <<svars, cvars, dvars, avars, hvars>>

\* The response of one range request arrives; one that is not ok throws,
\* Promise.all rejects and downloadWithSpeedBoost saves nothing.
RangeResponse(index, ok) ==
  /\ bphase = "running"
  /\ bpc[index] = "fetching"
  /\ IF ok
       THEN /\ bpc' = [bpc EXCEPT ![index] = "reading"]
            /\ UNCHANGED bphase
       ELSE /\ bpc' = [bpc EXCEPT ![index] = "failed"]
            /\ bphase' = "failed"
  /\ UNCHANGED <<total, parallelConnections, chunkData, chunks,
                 totalDownloaded, finished, boostBlob, sphase, seqChunks, seqBlob>>
  /\ UNCHANGED <<svars, cvars, dvars, avars, hvars>>

\* One turn of a range's read loop.
RangeRead(index, len) ==
  /\ bphase = "running"
  /\ bpc[index] = "reading"
  /\ LET body == RangeBody(RangeStart(index), RangeEnd(index))
         got == Len(chunkData[index])
     IN  /\ got + len <= Len(body)
         /\ chunkData' = [chunkData EXCEPT ![index] = @ \o SubSeq(body, got + 1, got + len)]
  /\ totalDownloaded' = totalDownloaded + len
  /\ UNCHANGED <<total, parallelConnections, bphase, bpc, chunks, finished,
                 boostBlob, sphase, seqChunks, seqBlob>>
  /\ UNCHANGED <<svars, cvars, dvars, avars, hvars>>

\* The read loop of a range ends: its pieces are combined into chunks[index].
RangeDone(index) ==
  /\ bphase = "running"
  /\ bpc[index] = "reading"
  /\ Len(chunkData[index]) = RangeEnd(index) - RangeStart(index) + 1
  /\ chunks' = [chunks EXCEPT ![index] = [null |-> FALSE, data |-> chunkData[index]]]
  /\ bpc' = [bpc EXCEPT ![index] = "done"]
  /\ finished' = Append(finished, index)
  /\ UNCHANGED <<total, parallelConnections, bphase, chunkData,
                 totalDownloaded, boostBlob, sphase, seqChunks, seqBlob>>
  /\ UNCHANGED <<svars, cvars, dvars, avars, hvars>>

\* new Blob(chunks.filter(chunk => chunk !== null)): in index order.
RECURSIVE ValidChunks(_)
ValidChunks(index) ==
  IF index >= parallelConnections THEN <<>>
  ELSE (IF chunks[index].null THEN <<>> ELSE chunks[index].data)
         \o ValidChunks(index + 1)

\* Promise.all(downloadPromises) resolves; the blob is saved.
BoostSave ==
  /\ bphase = "running"
  /\ \A index \in Indexes : bpc[index] = "done"
  /\ boostBlob' = ValidChunks(0)
  /\ bphase' = "saved"
  /\ UNCHANGED <<total, parallelConnections, bpc, chunkData, chunks,
                 totalDownloaded, finished, sphase, seqChunks, seqBlob>>
  /\ UNCHANGED <<svars, cvars, dvars, avars, hvars>>

\* downloadSequentially: the fetch of the whole file.
downloadSequentially ==
  /\ sphase = "idle"
  /\ sphase' = "reading"
  /\ UNCHANGED <<total, parallelConnections, bphase, bpc, chunkData, chunks,
                 totalDownloaded, finished, boostBlob, seqChunks, seqBlob>>
  /\ UNCHANGED <<svars, cvars, dvars, avars, hvars>>

SeqRead(len) ==
  /\ sphase = "reading"
  /\ SumLen(seqChunks) + len <= total
  /\ seqChunks' = Append(seqChunks,
                         SubSeq(FileBody, SumLen(seqChunks) + 1, SumLen(seqChunks) + len))
  /\ UNCHANGED <<total, parallelConnections, bphase, bpc, chunkData, chunks,
                 totalDownloaded, finished, boostBlob, sphase, seqBlob>>
  /\ UNCHANGED <<svars, cvars, dvars, avars, hvars>>

\* done: new Blob(chunks) is saved.
SeqDone ==
  /\ sphase = "reading"
  /\ SumLen(seqChunks) = total
  /\ seqBlob' = Flatten(seqChunks)
  /\ sphase' = "saved"
  /\ UNCHANGED <<total, parallelConnections, bphase, bpc, chunkData, chunks,
                 totalDownloaded, finished, boostBlob, seqChunks>>
  /\ UNCHANGED <<svars, cvars, dvars, avars, hvars>>

BNext ==
  \/ \E value \in 1..MaxConnections : setParallelConnections(value)
  \/ downloadWithSpeedBoost
  \/ \E index \in Indexes, ok \in BOOLEAN : RangeResponse(index, ok)
  \/ \E index \in Indexes, len \in 1..MaxChunk : RangeRead(index, len)
  \/ \E index \in Indexes : RangeDone(index)
  \/ BoostSave
  \/ downloadSequentially
  \/ \E len \in 1..MaxChunk : SeqRead(len)
  \/ SeqDone

(***************************************************************************)
(* The file-relay client (App.tsx, progress-tracking version):             *)
(* handleDownload, trackDownloadProgress, simpleDownload and               *)
(* cancelDownload.  One handleDownload runs at a time; hid numbers the     *)
(* downloads.  triggered, opened and cancelled record for which downloads  *)
(* triggerBrowserDownload was given the blob, window.open was called and   *)
(* Cancel was pressed.                                                     *)
(***************************************************************************)
MaxDownloads == 2     \* downloads started in one run of the model

\* setDownloadHistory(prev => [downloadRecord, ...prev]) and the alert that
\* follows, then the finally block of handleDownload.
RecordCompleted ==
  /\ downloadHistory' = <<[id |-> hid, status |-> "completed"]>> \o downloadHistory
  /\ alerts' = Append(alerts, [id |-> hid, text |-> "Download completed"])
  /\ hdownloading' = FALSE
  /\ downloadAbortController' = "null"
  /\ hpc' = "idle"

HIdle ==
  /\ hpc = "idle"
  /\ hid = 0
  /\ hdownloading = FALSE
  /\ downloadAbortController = "null"
  /\ signalAborted = FALSE
  /\ useSimpleDownload = FALSE
  /\ received = 0
  /\ downloadHistory = <<>>
  /\ alerts = <<>>
  /\ triggered = {}
  /\ opened = {}
  /\ cancelled = {}

\* The page is loaded, with either setting of 'simple download'.
HInit ==
  /\ hpc = "idle"
  /\ hid = 0
  /\ hdownloading = FALSE
  /\ downloadAbortController = "null"
  /\ signalAborted = FALSE
  /\ useSimpleDownload \in BOOLEAN
  /\ received = 0
  /\ downloadHistory = <<>>
  /\ alerts = <<>>
  /\ triggered = {}
  /\ opened = {}
  /\ cancelled = {}

\* handleDownload up to await axios.post('/api/download', ...).
relayHandleDownload ==
  /\ hpc = "idle"
  /\ ~hdownloading
  /\ hid < MaxDownloads
  /\ hid' = hid + 1
  /\ hdownloading' = TRUE
  /\ downloadAbortController' = "null"
  /\ signalAborted' = FALSE
  /\ received' = 0
  /\ hpc' = "posting"
  /\ UNCHANGED <<useSimpleDownload, downloadHistory, alerts, triggered, opened, cancelled>>
  /\ UNCHANGED <<svars, cvars, bvars, dvars, avars>>

\* The server answers the POST: with success and a downloadUrl the transfer
\* starts (simpleDownload, or trackDownloadProgress with a new controller and
\* its HEAD request); without them the server's message is shown.
postResolved(success) ==
  /\ hpc = "posting"
  /\ IF success
       THEN /\ hpc' = IF useSimpleDownload THEN "simple" ELSE "head"
            /\ downloadAbortController' = IF useSimpleDownload THEN downloadAbortController
                                          ELSE "set"
            /\ UNCHANGED <<hdownloading, alerts>>
       ELSE /\ alerts' = Append(alerts, [id |-> hid, text |-> "message"])
            /\ hdownloading' = FALSE
            /\ downloadAbortController' = "null"
            /\ hpc' = "idle"
  /\ UNCHANGED <<hid, signalAborted, useSimpleDownload, received, downloadHistory,
                 triggered, opened, cancelled>>
  /\ UNCHANGED <<svars, cvars, bvars, dvars, avars>>

\* The POST fails (an error status, or no answer): setError, then finally.
postRejected ==
  /\ hpc = "posting"
  /\ hdownloading' = FALSE
  /\ downloadAbortController' = "null"
  /\ hpc' = "idle"
  /\ UNCHANGED <<hid, signalAborted, useSimpleDownload, received, downloadHistory,
                 alerts, triggered, opened, cancelled>>
  /\ UNCHANGED <<svars, cvars, bvars, dvars, avars>>

\* The HEAD request is answered: downloadWithSpeedBoost or
\* downloadSequentially starts to fetch the file.
headResolved ==
  /\ hpc = "head"
  /\ ~signalAborted
  /\ hpc' = "transfer"
  /\ UNCHANGED <<hid, hdownloading, downloadAbortController, signalAborted,
                 useSimpleDownload, received, downloadHistory, alerts, triggered,
                 opened, cancelled>>
  /\ UNCHANGED <<svars, cvars, bvars, dvars, avars>>

\* The HEAD request, or a fetch or read of the transfer, fails with an error
\* that is no AbortError: the catch block of trackDownloadProgress falls
\* back to simpleDownload.
trackFailed ==
  /\ hpc \in {"head", "transfer"}
  /\ ~signalAborted
  /\ hpc' = "simple"
  /\ received' = 0
  /\ UNCHANGED <<hid, hdownloading, downloadAbortController, signalAborted,
                 useSimpleDownload, downloadHistory, alerts, triggered, opened,
                 cancelled>>
  /\ UNCHANGED <<svars, cvars, bvars, dvars, avars>>

\* One byte of the file arrives.
transferRead ==
  /\ hpc = "transfer"
  /\ ~signalAborted
  /\ received < StdoutLen
  /\ received' = received + 1
  /\ UNCHANGED <<hpc, hid, hdownloading, downloadAbortController, signalAborted,
                 useSimpleDownload, downloadHistory, alerts, triggered, opened,
                 cancelled>>
  /\ UNCHANGED <<svars, cvars, bvars, dvars, avars>>

\* The transfer is complete: triggerBrowserDownload(blob, filename), and
\* handleDownload goes on to the history record.
transferDone ==
  /\ hpc = "transfer"
  /\ ~signalAborted
  /\ received = StdoutLen
  /\ triggered' = triggered \cup {hid}
  /\ RecordCompleted
  /\ UNCHANGED <<hid, signalAborted, useSimpleDownload, received, opened, cancelled>>
  /\ UNCHANGED <<svars, cvars, bvars, dvars, avars>>

\* cancelDownload: abort of the controller in the state, if any;
\* setDownloading(false); resetProgressState().
cancelDownload ==
  /\ hdownloading
  /\ signalAborted' = (signalAborted \/ downloadAbortController = "set")
  /\ hdownloading' = FALSE
  /\ downloadAbortController' = "null"
  /\ cancelled' = cancelled \cup {hid}
  /\ UNCHANGED <<hpc, hid, useSimpleDownload, received, downloadHistory, alerts,
                 triggered, opened>>
  /\ UNCHANGED <<svars, cvars, bvars, dvars, avars>>

\* The pending fetch or read of an aborted controller rejects with an
\* AbortError: the catch block of trackDownloadProgress returns, and
\* handleDownload goes on to the history record.
abortRejected ==
  /\ hpc \in {"head", "transfer"}
  /\ signalAborted
  /\ RecordCompleted
  /\ UNCHANGED <<hid, signalAborted, useSimpleDownload, received, triggered, opened,
                 cancelled>>
  /\ UNCHANGED <<svars, cvars, bvars, dvars, avars>>

\* simpleDownload: the fetch (which has no abort signal) gives the blob,
\* which is handed to triggerBrowserDownload; or it fails, and the catch
\* block calls window.open(downloadUrl).  Either way simpleDownload returns.
simpleDownload(ok) ==
  /\ hpc = "simple"
  /\ IF ok
       THEN /\ triggered' = triggered \cup {hid}
            /\ UNCHANGED opened
       ELSE /\ opened' = opened \cup {hid}
            /\ UNCHANGED triggered
  /\ RecordCompleted
  /\ UNCHANGED <<hid, signalAborted, useSimpleDownload, received, cancelled>>
  /\ UNCHANGED <<svars, cvars, bvars, dvars, avars>>

HNext ==
  \/ relayHandleDownload
  \/ \E success \in BOOLEAN : postResolved(success)
  \/ postRejected
  \/ headResolved
  \/ trackFailed
  \/ transferRead
  \/ transferDone
  \/ cancelDownload
  \/ abortRejected
  \/ \E ok \in BOOLEAN : simpleDownload(ok)

(***************************************************************************)
(* apiLimiter and the analysis cache of POST /api/analyze.                 *)
(*                                                                         *)
(* Time is counted in ticks of 5 minutes, and what happens happens at a    *)
(* whole tick.  The cookie file and the                                    *)
(* classification of extractor errors are those of analyzeVideoUrl above.  *)
(* areq is the request that arrived last; a request arrives when the one   *)
(* before it has been answered.                                            *)
(***************************************************************************)
MaxTick == 3          \* ticks of 5 minutes the model runs for
MaxHits == 11         \* requests one client sends in one window

CACHE_DURATION == 2   \* 10 * 60 * 1000 ms, in ticks of 5 minutes
windowMs == 1         \* 5 * 60 * 1000 ms, in ticks of 5 minutes
max == 10             \* requests per window and client

Clients == {1, 2}     \* req.ip

Limited_AnalyzeOnly(endpoint) == endpoint = "analyze"

\* The routes registered with apiLimiter.
Limited(endpoint) == endpoint \in {"analyze", "download", "stream-download"}

\* A video page, and a direct link to a media file (getFileExtension).
AnalyzeUrls == {"video", "file.mp4"}

getFileExtension(url) == IF url = "file.mp4" THEN ".mp4" ELSE ""

\* `${url}_${cookies ? 'with_cookies' : 'no_cookies'}`
cacheKey(url, cookies) ==
  <<url, "_", IF cookies # <<>> THEN "with_cookies" ELSE "no_cookies">>

cached_Inclusive(key) ==
  {e \in analysisCache : e.key = key /\ atime - e.timestamp <= CACHE_DURATION}

\* analysisCache.get(cacheKey) of an entry that passes
\* (Date.now() - cached.timestamp) < CACHE_DURATION.
cached(key) ==
  {e \in analysisCache : e.key = key /\ atime - e.timestamp < CACHE_DURATION}

\* analysisCache.set(key, {data, timestamp: Date.now()})
cacheSet(key, data) ==
  {e \in analysisCache : e.key # key}
    \cup {[key |-> key, data |-> data, timestamp |-> atime]}

IdleAnalyze ==
  [pc |-> "idle", endpoint |-> "", client |-> 0, url |-> "", cookies |-> <<>>,
   at |-> 0, statusCode |-> 0, handler |-> FALSE, fromCache |-> FALSE,
   invoked |-> FALSE, data |-> <<>>]

AInit ==
  /\ atime = 0
  /\ sweepDue = FALSE
  /\ analysisCache = {}
  /\ hits = [c \in Clients |-> 0]
  /\ resetTime = [c \in Clients |-> 0]
  /\ admitted = [c \in Clients |-> 0]
  /\ areq = IdleAnalyze

\* The limiter's store on a request of client c: a window that is over is
\* replaced by a new one, the hit is counted.
newWindow(c) == hits[c] = 0 \/ atime >= resetTime[c]

totalHits(c) == IF newWindow(c) THEN 1 ELSE hits[c] + 1

\* The middleware in front of a route: the request is counted when the
\* route is registered with apiLimiter, and passed on unless the count of
\* the client's window exceeds max.
Admit(c, endpoint) == ~Limited(endpoint) \/ totalHits(c) <= max

\* admitted counts the requests of a client that reached a handler since
\* the last tick.
apiLimiter(c, endpoint) ==
  /\ totalHits(c) <= MaxHits
  /\ admitted' = [admitted EXCEPT ![c] = IF Admit(c, endpoint) THEN @ + 1 ELSE @]
  /\ IF Limited(endpoint)
       THEN /\ hits' = [hits EXCEPT ![c] = totalHits(c)]
            /\ resetTime' = [resetTime EXCEPT ![c] =
                               IF newWindow(c) THEN atime + windowMs ELSE @]
       ELSE UNCHANGED <<hits, resetTime>>

Arrived(c, endpoint, url, cookies) ==
  [IdleAnalyze EXCEPT !.endpoint = endpoint, !.client = c, !.url = url,
                      !.cookies = cookies, !.at = atime]

\* POST /api/analyze up to its first await: the limiter, the cache lookup,
\* then getFileSize for a direct file link or analyzeVideoUrl for a page.
postAnalyze(c, url, cookies) ==
  /\ areq.pc \in {"idle", "done"}
  /\ apiLimiter(c, "analyze")
  /\ LET rec == Arrived(c, "analyze", url, cookies)
         key == cacheKey(url, cookies)
     IN  areq' =
           IF ~Admit(c, "analyze")
             THEN [rec EXCEPT !.pc = "done", !.statusCode = 429]
             ELSE IF cached(key) # {}
               THEN [rec EXCEPT !.pc = "done", !.statusCode = 200, !.handler = TRUE,
                                !.fromCache = TRUE,
                                !.data = (CHOOSE e \in cached(key) : TRUE).data]
               ELSE IF getFileExtension(url) # ""
                 THEN [rec EXCEPT !.pc = "sizing", !.handler = TRUE]
                 ELSE [rec EXCEPT !.pc = "extracting", !.handler = TRUE,
                                  !.invoked = TRUE]
  /\ UNCHANGED <<atime, sweepDue, analysisCache>>
  /\ UNCHANGED <<svars, cvars, bvars, dvars, hvars>>

\* await getFileSize(url) settles: the file result is cached and sent.
analyzeFile ==
  /\ areq.pc = "sizing"
  /\ LET result == [type |-> "file", url |-> areq.url,
                    withCookies |-> areq.cookies # <<>>, at |-> atime,
                    userCookies |-> NoCookies]
     IN  /\ analysisCache' = cacheSet(cacheKey(areq.url, areq.cookies), result)
         /\ areq' = [areq EXCEPT !.pc = "done", !.statusCode = 200, !.data = result]
  /\ UNCHANGED <<atime, sweepDue, hits, resetTime, admitted>>
  /\ UNCHANGED <<svars, cvars, bvars, dvars, hvars>>

\* The user cookies analyzeVideoUrl gives to the extractor: those of the
\* request when they pass validateCookies.  What the extractor returns for
\* a page is what these cookies may see.
userCookiesOf(cookies) == IF validateCookies(cookies) THEN cookies ELSE NoCookies

\* await analyzeVideoUrl(url, cookies) settles: the video result is cached
\* and sent, or the error is answered with 500.
analyzeVideo(outcome) ==
  /\ areq.pc = "extracting"
  /\ LET result == [type |-> "video", url |-> areq.url,
                    withCookies |-> areq.cookies # <<>>, at |-> atime,
                    userCookies |-> userCookiesOf(areq.cookies)]
     IN  IF outcome = Success
           THEN /\ analysisCache' = cacheSet(cacheKey(areq.url, areq.cookies), result)
                /\ areq' = [areq EXCEPT !.pc = "done", !.statusCode = 200, !.data = result]
           ELSE /\ areq' = [areq EXCEPT !.pc = "done", !.statusCode = 500,
                                        !.data = analyzeError(outcome)]
                /\ UNCHANGED analysisCache
  /\ UNCHANGED <<atime, sweepDue, hits, resetTime, admitted>>
  /\ UNCHANGED <<svars, cvars, bvars, dvars, hvars>>

\* A request to POST /api/download or GET /api/stream-download: the limiter,
\* then the handler (the handlers themselves are modelled above).
otherRequest(c, endpoint) ==
  /\ areq.pc \in {"idle", "done"}
  /\ apiLimiter(c, endpoint)
  /\ areq' = [Arrived(c, endpoint, "video", NoCookies) EXCEPT
                !.pc = "done",
                !.statusCode = IF Admit(c, endpoint) THEN 200 ELSE 429,
                !.handler = Admit(c, endpoint),
                !.invoked = Admit(c, endpoint)]
  /\ UNCHANGED <<atime, sweepDue, analysisCache>>
  /\ UNCHANGED <<svars, cvars, bvars, dvars, hvars>>

\* Five minutes pass; the cleanup interval becomes due.
FiveMinutes ==
  /\ atime < MaxTick
  /\ ~sweepDue
  /\ atime' = atime + 1
  /\ sweepDue' = TRUE
  /\ admitted' = [c \in Clients |-> 0]
  /\ UNCHANGED <<analysisCache, hits, resetTime, areq>>
  /\ UNCHANGED <<svars, cvars, bvars, dvars, hvars>>

\* The setInterval callback: entries older than CACHE_DURATION are deleted.
cacheCleanup ==
  /\ sweepDue
  /\ sweepDue' = FALSE
  /\ analysisCache' = {e \in analysisCache : ~(atime - e.timestamp > CACHE_DURATION)}
  /\ UNCHANGED <<atime, hits, resetTime, admitted, areq>>
  /\ UNCHANGED <<svars, cvars, bvars, dvars, hvars>>

\* One client; pages and file links, with and without cookies.
CacheNext ==
  \/ \E url \in AnalyzeUrls, cookies \in {NoCookies, ValidCookies} :
        postAnalyze(1, url, cookies)
  \/ analyzeFile
  \/ \E outcome \in {Success, BotCheck} : analyzeVideo(outcome)
  \/ \E endpoint \in {"download", "stream-download"} : otherRequest(1, endpoint)
  \/ FiveMinutes
  \/ cacheCleanup

\* Two clients; one page.
LimiterNext ==
  \/ \E c \in Clients : postAnalyze(c, "video", NoCookies)
  \/ \E outcome \in {Success, BotCheck} : analyzeVideo(outcome)
  \/ \E c \in Clients, endpoint \in {"download", "stream-download"} :
        otherRequest(c, endpoint)
  \/ FiveMinutes
  \/ cacheCleanup

\* Two clients, each with the cookies of its own account; one page.
cookiesOfClient(c) == IF c = 1 THEN ValidCookies ELSE OtherCookies

ShareNext ==
  \/ \E c \in Clients : postAnalyze(c, "video", cookiesOfClient(c))
  \/ \E outcome \in {Success, BotCheck} : analyzeVideo(outcome)
  \/ FiveMinutes
  \/ cacheCleanup

(***************************************************************************)
(* Specifications.                                                         *)
(***************************************************************************)
vars == <<svars, cvars, bvars, dvars, avars, hvars>>

ServerInit == SInit /\ CInit /\ BIdle /\ DIdle /\ AInit /\ HIdle

SpecServer == ServerInit /\ [][SNext]_vars

\* One stream-download request on its own.
StreamNext ==
  \/ Tick
  \/ \E url \in BOOLEAN, cookies \in CookieInputs, format \in FormatInputs,
        resumeFrom \in ResumeFromInputs, spawnOk \in BOOLEAN :
        StreamDownload(1, url, cookies, format, resumeFrom, spawnOk)
  \/ \E spawnOk \in BOOLEAN : StreamCookieWritten(1, spawnOk)
  \/ StdoutData(1)
  \/ \E code \in ExitCodes : ProcessClose(1, code)
  \/ ProcessError(1)
  \/ ClientClose(1)

SpecStream == ServerInit /\ [][StreamNext]_vars

ClientInit == SInit /\ CInit /\ BIdle /\ DIdle /\ AInit /\ HIdle

SpecClient == ClientInit /\ [][CNext]_vars

BoostInit == SInit /\ CInit /\ BInit /\ DIdle /\ AInit /\ HIdle

SpecBoost == BoostInit /\ [][BNext]_vars

\* One analyze or download request on its own.
ExtractNext ==
  \/ Tick
  \/ \E cookies \in CookieInputs : analyzeVideoUrl(1, cookies)
  \/ analyzeCookieWritten(1)
  \/ \E outcome \in ExtractorOutcomes : analyzeExtracted(1, outcome)
  \/ \E url \in Urls, cookies \in CookieInputs : downloadContent(1, url, cookies)
  \/ downloadCookieWritten(1)
  \/ ytdlpWritesFile(1)
  \/ \E outcome \in ExtractorOutcomes : downloadExtracted(1, outcome)

SpecExtract == ServerInit /\ [][ExtractNext]_vars

FilesInit == SInit /\ CInit /\ BIdle /\ DInit /\ AInit /\ HIdle

SpecFiles == FilesInit /\ [][DNext]_vars

ApiInit == SInit /\ CInit /\ BIdle /\ DIdle /\ AInit /\ HIdle

SpecCache == ApiInit /\ [][CacheNext]_vars

SpecLimiter == ApiInit /\ [][LimiterNext]_vars

SpecShare == ApiInit /\ [][ShareNext]_vars

\* One analyze, download or stream-download request on its own, on a server
\* with or without a cookie file, with every kind of cookie blob.
AllCookieInputs == CookieInputs \cup {MixedCookies}

CookiesNext ==
  \/ Tick
  \/ \E cookies \in AllCookieInputs : analyzeVideoUrl(1, cookies)
  \/ analyzeCookieWritten(1)
  \/ \E outcome \in {Success, BotCheck} : analyzeExtracted(1, outcome)
  \/ \E url \in Urls, cookies \in AllCookieInputs : downloadContent(1, url, cookies)
  \/ downloadCookieWritten(1)
  \/ ytdlpWritesFile(1)
  \/ \E outcome \in {Success, BotCheck} : downloadExtracted(1, outcome)
  \/ \E url \in BOOLEAN, cookies \in AllCookieInputs, format \in FormatInputs,
        resumeFrom \in {<<>>, <<"2">>}, spawnOk \in BOOLEAN :
        StreamDownload(1, url, cookies, format, resumeFrom, spawnOk)
  \/ \E spawnOk \in BOOLEAN : StreamCookieWritten(1, spawnOk)
  \/ StdoutData(1)
  \/ \E code \in ExitCodes : ProcessClose(1, code)
  \/ ProcessError(1)
  \/ ClientClose(1)

CookiesInit == ConfigInit /\ CInit /\ BIdle /\ DIdle /\ AInit /\ HIdle

SpecCookies == CookiesInit /\ [][CookiesNext]_vars

\* One stream-download request and the connection of its client.
RelayNext ==
  \/ Tick
  \/ \E url \in BOOLEAN, cookies \in {NoCookies, ValidCookies}, format \in FormatInputs,
        resumeFrom \in {<<>>, <<"1">>}, spawnOk \in BOOLEAN :
        StreamDownload(1, url, cookies, format, resumeFrom, spawnOk)
  \/ \E spawnOk \in BOOLEAN : StreamCookieWritten(1, spawnOk)
  \/ StdoutData(1)
  \/ SocketAccept(1)
  \/ \E code \in ExitCodes : ProcessClose(1, code)
  \/ ProcessError(1)
  \/ ClientClose(1)

SpecRelay == ServerInit /\ [][RelayNext]_vars

HistoryInit == SInit /\ CInit /\ BIdle /\ DIdle /\ AInit /\ HInit

SpecHistory == HistoryInit /\ [][HNext]_vars

(***************************************************************************)
(* Claims about the server.                                                *)
(***************************************************************************)
StreamReqs == {r \in Reqs : req[r].kind = "stream"}

InFlight(r) == req[r].pc \in {"writing", "streaming", "extracting"}

\* C1: once the client connection of a stream-download request has closed,
\* its yt-dlp subprocess is not left running: a subprocess that runs for a
\* closed connection has been sent SIGTERM.
C1_NoOrphanedSubprocess ==
  \A r \in StreamReqs :
    (req[r].clientClosed /\ req[r].proc = "running") => req[r].killed

\* C6: when no request is in flight no temp_cookies_* file exists: every
\* temporary cookie file is deleted by the end of the invocation that wrote it.
C6_CookieFilesDeleted ==
  (\A r \in Reqs : ~InFlight(r)) => files = {}

\* C7: two requests in flight at the same time that both wrote a temporary
\* cookie file use different paths.
C7_CookiePathsDistinct ==
  \A r1, r2 \in Reqs :
    (/\ r1 # r2
     /\ InFlight(r1) /\ InFlight(r2)
     /\ req[r1].tempCookiePath # 0 /\ req[r2].tempCookiePath # 0)
    => req[r1].tempCookiePath # req[r2].tempCookiePath

\* The decimal text of a small offset, as a client writes it.
DecimalText(k) ==
  LET d(n) == CASE n = 0 -> "0" [] n = 1 -> "1" [] n = 2 -> "2" [] n = 3 -> "3"
                [] n = 4 -> "4" [] n = 5 -> "5" [] n = 6 -> "6" [] n = 7 -> "7"
                [] n = 8 -> "8" [] n = 9 -> "9"
  IN  IF k < 10 THEN <<d(k)>> ELSE <<d(k \div 10), d(k % 10)>>

MaxOffset == 20

\* C8: a streaming response that relays data has Accept-Ranges: bytes; with
\* resume offset 0 (or none) its status is 200 and it has no Content-Range,
\* with resume offset k > 0 its status is 206 and its Content-Range is
\* 'bytes k-*/*'.
C8_RangeNegotiation ==
  \A r \in StreamReqs :
    req[r].body # <<>> =>
      /\ req[r].acceptRanges
      /\ req[r].resumeFrom \in {<<>>, DecimalText(0)} =>
            /\ req[r].statusCode = 200
            /\ req[r].contentRange = NoHeader
      /\ \A k \in 1..MaxOffset :
            req[r].resumeFrom = DecimalText(k) =>
              /\ req[r].statusCode = 206
              /\ req[r].contentRange =
                   {[unit |-> "bytes", start |-> k, end |-> "*", size |-> "*"]}

C8_Witness ==
  \E r \in StreamReqs :
    /\ req[r].resumeFrom = <<"1", "2">>
    /\ req[r].body # <<>>
    /\ req[r].statusCode = 206
    /\ req[r].ended

\* C9: a stream-download request whose resume offset is at or beyond the
\* total size of the resource is answered 416, starts no subprocess and sends
\* no body byte.
C9_RangeNotSatisfiable ==
  \A r \in StreamReqs :
    (req[r].pc \in {"streaming", "done"} /\ req[r].resumeFromByte >= StdoutLen
       /\ req[r].statusCode # 400 /\ validHeaderValue(req[r].format))
    => /\ req[r].statusCode = 416
       /\ req[r].proc = "none"
       /\ req[r].body = <<>>

\* Every line of the blob that is neither a comment nor blank has at least
\* six tab-separated fields.
WellFormed(cookiesString) ==
  \A i \in 1..Len(cookiesString) :
    (~cookiesString[i].hash /\ ~cookiesString[i].blank)
      => cookiesString[i].fields >= 6

\* The request has got as far as calling the extractor.
Invoked(r) == req[r].cookieOption # ""

\* C21: a request writes a temporary cookie file only for a blob all of
\* whose non-comment, non-blank lines have at least six fields; for a blob
\* with a line of fewer fields no temporary file is chosen or written and
\* the extractor gets the cookies option of a request without a blob (the
\* server's cookie file when there is one, otherwise none).
C21_MalformedCookiesRejected ==
  \A r \in Reqs :
    (req[r].kind # "none" /\ ~WellFormed(req[r].cookies)) =>
      /\ req[r].tempCookiePath = 0
      /\ req[r].pc # "writing"
      /\ Invoked(r) =>
            req[r].cookieOption = (IF USE_COOKIES THEN "server" ELSE "none")

\* C22: when the subprocess of a streaming request exits with a non-zero
\* code or cannot be spawned, the response is ended: as a 500 JSON error when
\* no header section was sent before (whatever status had been prepared),
\* otherwise as it stands, with the status and the body sent so far and no
\* error body.  A response that is ended stays as it is: no later listener
\* changes its status, its body or its error body.
C22_FailedSubprocessResponse ==
  [][\A r \in Reqs :
       /\ (/\ req[r].kind = "stream"
           /\ req[r].proc \in {"running", "spawnfail"}
           /\ req'[r].proc \in {"exited", "errored"}
           /\ req'[r].code # 0)
          => /\ req'[r].ended
             /\ IF ~req[r].headersSent
                  THEN req'[r].statusCode = 500 /\ req'[r].json
                  ELSE /\ req'[r].statusCode = req[r].statusCode
                       /\ req'[r].body = req[r].body
                       /\ ~req'[r].json
       /\ (req[r].kind = "stream" /\ req[r].ended)
          => /\ req'[r].ended
             /\ req'[r].statusCode = req[r].statusCode
             /\ req'[r].body = req[r].body
             /\ req'[r].json = req[r].json
    ]_vars

\* The spawn failed on a request with a resume offset: 'error' and then
\* 'close' were handled.
C22_Witness ==
  /\ req[1].kind = "stream"
  /\ req[1].resumeFromByte > 0
  /\ req[1].proc = "exited"
  /\ req[1].code = UV_ENOENT
  /\ req[1].statusCode = 500
  /\ req[1].json
  /\ req[1].ended

\* What res.write buffers before it returns false, in bytes of the model.
writableHighWaterMark == 1

\* C23: what the relay has read from the subprocess and the client
\* connection has not accepted yet stays within the response's high-water
\* mark, and is never the whole payload.
C23_Backpressure ==
  \A r \in StreamReqs :
    /\ Len(req[r].body) - req[r].accepted <= writableHighWaterMark
    /\ Len(req[r].body) - req[r].accepted < StdoutLen

\* C24: the bytes written to the body of a streaming response are a prefix
\* of the subprocess's standard output, in its order; they are counted in
\* totalBytes; when the subprocess has exited with code 0 and the client is
\* connected, the whole output has been written and the response is ended.
C24_RelayInOrder ==
  \A r \in StreamReqs :
    /\ Len(req[r].body) <= StdoutLen
    /\ \A i \in 1..Len(req[r].body) :
          req[r].body[i] = ytdlpOutput(req[r].resumeFromByte, i)
    /\ req[r].totalBytes = Len(req[r].body)
    /\ (req[r].proc = "exited" /\ req[r].code = 0 /\ ~req[r].clientClosed)
         => /\ Len(req[r].body) = StdoutLen
            /\ req[r].ended

C24_Witness ==
  /\ req[1].kind = "stream"
  /\ req[1].proc = "exited"
  /\ req[1].code = 0
  /\ ~req[1].clientClosed
  /\ req[1].statusCode = 200
  /\ Len(req[1].body) = StdoutLen
  /\ req[1].accepted = StdoutLen
  /\ req[1].ended

\* The path lies in the downloads directory: its leading segments are those
\* of the directory.
Inside(filePath) ==
  LET d == Segments(outputDir, <<>>)
      p == Segments(filePath, <<>>)
  IN  Len(p) >= Len(d) /\ SubSeq(p, 1, Len(d)) = d

\* C14: a HEAD or GET request for a file stats or serves a file only when
\* the resolved path lies in the downloads directory, and a request whose
\* resolved path lies outside it is answered 403.
C14_PathTraversalProtection ==
  \A g \in Gets :
    gets[g].pc # "idle" =>
      /\ gets[g].read => Inside(gets[g].filePath)
      /\ ~Inside(gets[g].filePath) => gets[g].statusCode = 403

\* C15: the filename and downloadUrl a successful download request reports
\* are those of the file its own extractor run wrote: the file named after
\* the requested URL, holding the bytes of that URL.
C15_DownloadUrlIsOwnFile ==
  \A r \in Reqs :
    (req[r].kind = "download" /\ req[r].pc = "done" /\ req[r].statusCode = 200)
    => /\ req[r].filename = Title(req[r].url)
       /\ LET param == SubSeq(req[r].downloadUrl, 6, Len(req[r].downloadUrl))
              filePath == filePathOf(decodeURIComponent(param))
          IN  existsSync(filePath) /\ FileAt(filePath).content = req[r].url

\* C16: the file of a GET response exists while the response is being sent
\* and for 30 s after a response that completed.
C16_FileKeptForGracePeriod ==
  \A g \in Gets :
    (/\ gets[g].method = "GET"
     /\ gets[g].statusCode \in {200, 206}
     /\ \/ gets[g].pc = "serving"
        \/ gets[g].pc = "done" /\ now < gets[g].completedAt + DeleteDelay)
    => existsSync(gets[g].filePath)

\* The extractor's error holds the bot-check text or reports an HTTP 429.
CarriesBlock(errorMessage) ==
  \/ includes(errorMessage, "Sign in to confirm you're not a bot")
  \/ \E k \in 1..(Len(errorMessage) - 1) :
        errorMessage[k] = "HTTP Error " /\ errorMessage[k + 1] = "429"

\* The extractor's error reports a private or unavailable video.
ReportsUnavailable(errorMessage) ==
  \/ includes(errorMessage, "Video unavailable")
  \/ includes(errorMessage, "Private video")

\* C19: an analyze or download request whose extractor failed is answered
\* 500; when the error carries the bot-check text or a 429 report the message
\* is the temporarily-blocked one, and when it reports a private or
\* unavailable video the message is the private-unavailable-restricted one.
C19_ErrorClassification ==
  \A r \in Reqs :
    req[r].extractorError # <<>> =>
      /\ req[r].statusCode = 500
      /\ CarriesBlock(req[r].extractorError)
           => req[r].message \in {BlockedAnalyze, BlockedDownload}
      /\ (ReportsUnavailable(req[r].extractorError)
            /\ ~CarriesBlock(req[r].extractorError))
           => req[r].message = VideoRestricted

\* C20: the message of an error response of analyze or download is one of
\* the texts the server words itself.
C20_NoRawExtractorText ==
  \A r \in Reqs :
    (req[r].kind \in {"analyze", "download"} /\ req[r].pc = "done"
       /\ req[r].statusCode = 500)
    => req[r].message \in {BlockedAnalyze, BlockedDownload, VideoRestricted, AccessDenied,
                           <<"Failed to analyze video URL">>, <<"Download failed">>}

\* C17: an analyze request is answered from the cache only when the cache
\* holds, for the request's URL and cookie presence, an entry written less
\* than CACHE_DURATION before, swept or not; the answer is then the data of
\* that entry and the extractor is not invoked.
C17_CacheFreshness ==
  [][(/\ areq' # areq
      /\ areq'.endpoint = "analyze"
      /\ areq'.pc = "done"
      /\ areq'.fromCache)
     => /\ ~areq'.invoked
        /\ \E e \in analysisCache :
              /\ e.data.url = areq'.url
              /\ e.data.withCookies = (areq'.cookies # <<>>)
              /\ atime - e.timestamp < CACHE_DURATION
              /\ areq'.data = e.data
    ]_vars

C17_Witness ==
  /\ areq.endpoint = "analyze"
  /\ areq.pc = "done"
  /\ areq.fromCache
  /\ areq.data.at + 1 = atime
  /\ \E e \in analysisCache : e.key # cacheKey(areq.url, areq.cookies)
                               /\ atime - e.timestamp = CACHE_DURATION

\* C27: an entry of the analysis cache stays in the cache as it was inserted
\* until the cleanup interval removes it: no step replaces it by another
\* entry of its key, and no step other than the cleanup removes it.
C27_CacheEntriesImmutable ==
  [][\A e \in analysisCache :
       e \notin analysisCache'
         => /\ sweepDue /\ ~sweepDue'
            /\ \A f \in analysisCache' : f.key # e.key
    ]_vars

\* C28: the metadata an analyze request is answered with was extracted for
\* the request's own URL with the request's own cookies.
C28_MetadataOfOwnRequest ==
  (areq.endpoint = "analyze" /\ areq.pc = "done" /\ areq.statusCode = 200)
    => /\ areq.data.url = areq.url
       /\ areq.data.userCookies = userCookiesOf(areq.cookies)

\* C18: in one window at most max requests of a client reach a handler of
\* the endpoints behind apiLimiter; a request that is rejected is answered
\* 429 with no handler run, no cache access and no extractor call, and it is
\* rejected only when max requests of the same client were admitted in the
\* window, whatever the other clients sent.
C18_RateLimit ==
  /\ \A c \in Clients : admitted[c] <= max
  /\ (areq.statusCode = 429 /\ areq.at = atime)
       => /\ admitted[areq.client] = max
          /\ ~areq.handler /\ ~areq.fromCache /\ ~areq.invoked
  /\ (areq.pc = "done" /\ areq.statusCode # 429 /\ areq.at = atime)
       => areq.handler

C18_Witness ==
  /\ atime >= 1
  /\ areq.statusCode = 429
  /\ areq.at = atime
  /\ areq.client = 1
  /\ admitted[1] = max
  /\ admitted[2] \in 1..(max - 1)

(***************************************************************************)
(* Claims about the pause/resume client.                                   *)
(***************************************************************************)
\* C2: after a download was paused with k bytes accumulated and resumed with
\* resumeFrom = k, the resumed response begins at byte k of the resource and,
\* once the resumed stream is over, the chunk buffer holds exactly the bytes
\* of the resource, each once and in order.
C2_ResumeExactPosition ==
  \A i \in Invs :
    (/\ inv[i].origin = "resume"
     /\ inv[i].pc = "returned"
     /\ inv[i].resumeFromByte > 0 /\ inv[i].resumeFromByte < StdoutLen
     /\ abortController = i /\ downloading)
    => /\ ResponseBody(inv[i].resumeFromByte)[1] = Resource[inv[i].resumeFromByte + 1]
       /\ Flatten(downloadedChunks) = Resource

\* C4: the automatic retry counter never exceeds 3.
C4_RetryBound == retryCount <= 3

\* C5: downloadedBytes is the sum of the lengths of the buffers in
\* downloadedChunks.
C5_BytesEqualSum == downloadedBytes = SumLen(downloadedChunks)

\* C10: the request a Resume issues has resumeFrom equal to the number of
\* bytes accumulated in downloadedChunks when Resume was pressed.
C10_ResumeFromAccumulated ==
  \A i \in Invs :
    (inv[i].origin = "resume" /\ inv[i].pc = "fetching")
    => inv[i].resumeFromByte = SumLen(inv[i].downloadedChunks)

\* C11: when the stream of a download ends without a pause or an error (the
\* invocation Download started has read the whole body and returned), the
\* payload has been saved, and what was saved is the resource: every chunk
\* received, in arrival order.
C11_SavedOnCompletion ==
  \A i \in Invs :
    (/\ inv[i].origin = "download"
     /\ inv[i].pc \in {"returned", "saved"}
     /\ inv[i].pos = StdoutLen
     /\ ~isPaused /\ error = <<>> /\ retryCount = 0)
    => /\ saved # <<>>
       /\ saved[Len(saved)] = Resource

\* C12: after Cancel (downloading is false again) no fetch is in flight, no
\* stream is being read, and no chunk or byte count is accumulated.
C12_CancelTerminal ==
  ~downloading =>
    /\ \A i \in Invs : inv[i].pc \notin {"fetching", "reading"}
    /\ downloadedChunks = <<>>
    /\ downloadedBytes = 0

\* C13: a retry is scheduled (an invocation starts to wait for the retry
\* timer, the retry counter goes up) only by an invocation whose fetch or
\* read failed with a network error; a step that pauses the download, and a
\* step in which a response that is not ok is handled, schedule no retry and
\* leave the retry counter alone.
C13_RetryOnlyOnNetworkError ==
  [][LET scheduled == {i \in Invs : inv'[i].pc = "timer" /\ inv[i].pc # "timer"}
     IN  /\ \A i \in scheduled :
               /\ inv[i].pc \in {"fetching", "reading"}
               /\ inv'[i].caught \in FetchErrors \cup ReadErrors
         /\ retryCount' > retryCount => scheduled # {}
         /\ (isPaused' /\ ~isPaused) => (scheduled = {} /\ retryCount' = retryCount)
         /\ \A i \in Invs :
               (inv'[i].caught.name = "Error" /\ inv[i].caught = NoError)
               => (inv'[i].pc = "failed" /\ retryCount' = retryCount)
    ]_vars

C13_Witness ==
  /\ isPaused
  /\ retryCount = 1
  /\ \E i \in Invs : inv[i].pc = "aborted" /\ inv[i].caught = AbortError
  /\ \E i \in Invs : inv[i].pc = "failed" /\ inv[i].caught = HttpError(500)
  /\ \E i \in Invs : inv[i].pc = "retried"

\* C30: an automatic retry that fails and schedules the next automatic
\* retry sets a delay strictly greater than the delay it was itself started
\* after.
C30_IncreasingRetryDelay ==
  \A i \in Invs :
    (inv[i].pc = "timer" /\ inv[i].origin = "retry")
      => inv[i].delay > inv[i].after

\* The invocations of startDownload with a fetch in flight or a stream being
\* read.
Active == {i \in Invs : inv[i].pc \in {"fetching", "reading"}}

\* C25: at most one invocation of startDownload has a fetch in flight or a
\* read loop running, and none has while the download is paused.
C25_SingleActiveLoop ==
  /\ Cardinality(Active) <= 1
  /\ isPaused => Active = {}

(***************************************************************************)
(* Claims about the file-relay client.                                     *)
(***************************************************************************)
\* C26: a download has a 'completed' record in the history, or a 'Download
\* completed' alert, only if its payload was received in full and given to
\* the browser save, and Cancel was not pressed during it.
C26_CompletedOnlyWhenSaved ==
  /\ \A k \in 1..Len(downloadHistory) :
        downloadHistory[k].status = "completed"
          => /\ downloadHistory[k].id \in triggered
             /\ downloadHistory[k].id \notin cancelled
  /\ \A k \in 1..Len(alerts) :
        alerts[k].text = "Download completed"
          => /\ alerts[k].id \in triggered
             /\ alerts[k].id \notin cancelled

\* The indexes whose async function has issued a range request.
Requested ==
  {index \in Indexes : bpc[index] # "done" \/ ~chunks[index].null}

\* C29: the number of connections is in 1..8; the indexes whose range starts
\* below total, and only they, issue a request; their ranges lie in
\* [0, total), have start <= end, follow one another without gap or overlap
\* from byte 0 on, and together hold every byte of [0, total).
C29_RangesPartition ==
  /\ parallelConnections \in 1..MaxConnections
  /\ bphase # "idle" =>
        /\ \A index \in Indexes : index \in Requested <=> RangeStart(index) < total
        /\ \A index \in Requested :
              /\ 0 <= RangeStart(index)
              /\ RangeStart(index) <= RangeEnd(index)
              /\ RangeEnd(index) <= total - 1
              /\ index = 0 => RangeStart(index) = 0
              /\ index > 0 => /\ index - 1 \in Requested
                              /\ RangeStart(index) = RangeEnd(index - 1) + 1
        /\ \A i, j \in Requested :
              i < j => RangeEnd(i) < RangeStart(j)
        /\ \A b \in 0..(total - 1) :
              \E index \in Requested : RangeStart(index) <= b /\ b <= RangeEnd(index)

\* A file of three bytes over two connections: ranges 0-1 and 2-2.
C29_Witness ==
  /\ bphase = "running"
  /\ total = 3
  /\ parallelConnections = 2
  /\ Requested = {0, 1}
  /\ bpc[1] = "reading"
  /\ chunkData[1] = <<2>>

\* C3: the payload downloadWithSpeedBoost saves is the file, byte for byte,
\* the same payload downloadSequentially saves, the range buffers being
\* joined in index order whatever order the ranges finished in; nothing is
\* saved before every range has finished.
C3_BoostEqualsSequential ==
  /\ bphase = "saved" =>
        /\ boostBlob = FileBody
        /\ \A index \in Indexes : bpc[index] = "done"
        /\ sphase = "saved" => boostBlob = seqBlob
  /\ boostBlob # <<>> => bphase = "saved"

C3_Witness ==
  /\ bphase = "saved"
  /\ sphase = "saved"
  /\ parallelConnections > total
  /\ Len(finished) >= 3
  /\ finished[1] > finished[2]

====
